---------------------------- MODULE Spec2Model ----------------------------
(***************************************************************************)
(* The action/state engine of holochain-rust's core:                       *)
(*   - ActionWrapper (core/src/action.rs): an Action plus a process-unique *)
(*     id that alone decides equality and hashing;                         *)
(*   - the workflow respond_validation_package_request                     *)
(*     (core/src/workflows/respond_validation_package_request.rs);         *)
(*   - the dispatcher that receives ActionWrappers from the action channel *)
(*     and applies them to the agent, network and nucleus sub-states.      *)
(***************************************************************************)
EXTENDS Integers, Sequences, FiniteSets, TLC

(***************************************************************************)
(* Bounds of the model.                                                    *)
(***************************************************************************)
\* number of actions dispatched by producers other than the workflows
MaxEnvDispatch == 1

\* number of actions dispatched by the network handlers, in NetSpec
MaxNetDispatch == 4

\* the longest lists of instances and of interfaces in a Configuration
MaxInstances == 2
MaxInterfaces == 2

\* the respond_validation_package_request tasks, in the order they are spawned
Workflows == {1, 2}

(***************************************************************************)
(* Option and Result values.                                               *)
(***************************************************************************)
None == [tag |-> "None"]
Some(v) == [tag |-> "Some", val |-> v]
Ok(v) == [tag |-> "Ok", val |-> v]
Err(e) == [tag |-> "Err", err |-> e]

\* an ok() that keeps a failure as a value
Result_ok_keeps_failure(r) ==
    IF r.tag = "Ok" THEN Some(r.val) ELSE Some([chain_header |-> r.err])

\* Result::ok(): Ok(v) becomes Some(v), Err(_) becomes None
Result_ok(r) == IF r.tag = "Ok" THEN Some(r.val) ELSE None

(***************************************************************************)
(* Entries, addresses and the raw content held by the storage.             *)
(***************************************************************************)
Entries == {"entryA", "entryB"}
Addresses == {"addrA", "addrB", "addrH"}
Peers == {"P", "Q"}
MsgIds == {"m1", "m2"}
\* the validation package requests received: who asked, under which message id
Requests == {[from |-> "P", msg_id |-> "m1"], [from |-> "Q", msg_id |-> "m2"]}

\* the address of an entry is a function of its content
Entry_address(e) == IF e = "entryA" THEN "addrA" ELSE "addrB"

\* the raw content stored for an entry, and the raw content of a chain header
Content_from_entry(e) == <<"Entry", e>>
HeaderContent == <<"ChainHeader", "genesis">>

\* Entry::try_from(raw): only content that was written from an Entry parses
Entry_try_from(raw) ==
    IF raw[1] = "Entry" THEN Ok(raw[2]) ELSE Err("SerializationError")

\* ContentAddressableStorage::fetch(address): Ok(Option<Content>), or an error
\* of the storage itself
cas_fetch(cas, address, ioerr) ==
    IF ioerr THEN Err("IoError") ELSE Ok(cas[address])

\* a read that drops what it fetched, as a write guard would allow
cas_after_read_evict(cas, address) == [cas EXCEPT ![address] = None]

\* a read through the storage's read guard leaves the storage as it was
cas_after_read(cas, address) == cas

\* a get_entry that fetches under the address of the chain's first entry
get_entry_first_address(cas, address, ioerr) ==
    LET fetched == cas_fetch(cas, "addrA", ioerr) IN
    IF fetched.tag = "Err" THEN fetched
    ELSE IF fetched.val = None THEN Err("Entry not found")
    ELSE Entry_try_from(fetched.val.val)

\* a get_entry that answers a missing address with a default entry
get_entry_or_default(cas, address, ioerr) ==
    LET fetched == cas_fetch(cas, address, ioerr) IN
    IF fetched.tag = "Err" THEN fetched
    ELSE IF fetched.val = None THEN Ok("entryA")
    ELSE Entry_try_from(fetched.val.val)

\* get_entry, after the state and the read lock were obtained
get_entry(cas, address, ioerr) ==
    LET fetched == cas_fetch(cas, address, ioerr) IN
    IF fetched.tag = "Err" THEN fetched
    ELSE IF fetched.val = None THEN Err("Entry not found")
    ELSE Entry_try_from(fetched.val.val)

\* the package build_validation_package returns for an entry when it succeeds
ValidationPackage_for(e) == [chain_header |-> Entry_address(e)]

(***************************************************************************)
(* Actions.                                                                *)
(***************************************************************************)
DirectMessage_ValidationPackage(maybe_package) ==
    [variant |-> "ValidationPackage", package |-> maybe_package]

DirectMessage_RequestValidationPackage(address) ==
    [variant |-> "RequestValidationPackage", address |-> address]

DirectMessageData(address, message, msg_id, is_response) ==
    [address |-> address, message |-> message, msg_id |-> msg_id,
     is_response |-> is_response]

Action_SendDirectMessage(data) == [type |-> "SendDirectMessage", data |-> data]
Action_ResolveDirectConnection(msg_id) ==
    [type |-> "ResolveDirectConnection", data |-> msg_id]
Action_Commit(entry) == [type |-> "Commit", data |-> <<entry, None>>]
Action_ReturnInitializationResult(r) ==
    [type |-> "ReturnInitializationResult", data |-> r]

\* derive(PartialEq) for Action: the same variant with the same data
Action_eq(a, b) == a.type = b.type /\ a.data = b.data

\* a response that is not flagged as one
respond_action_unflagged(to_agent_id, msg_id, maybe_validation_package) ==
    Action_SendDirectMessage(
        DirectMessageData(to_agent_id,
                          DirectMessage_ValidationPackage(maybe_validation_package),
                          msg_id, FALSE))

\* the action the workflow builds from its arguments and the optional package
respond_action(to_agent_id, msg_id, maybe_validation_package) ==
    Action_SendDirectMessage(
        DirectMessageData(to_agent_id,
                          DirectMessage_ValidationPackage(maybe_validation_package),
                          msg_id, TRUE))

\* a match with its arms exchanged
maybe_package_of_swapped(entry_result, build_result) ==
    IF entry_result.tag = "Err" THEN Result_ok(build_result) ELSE None

\* the match on get_entry's result: the builder's result, or None
maybe_package_of(entry_result, build_result) ==
    IF entry_result.tag = "Ok" THEN Result_ok(build_result) ELSE None

(***************************************************************************)
(* ActionWrapper.                                                          *)
(***************************************************************************)
\* a constructor whose id is decided by the variant of the payload
ActionWrapper_new_id_per_variant(a, fresh_id) ==
    [action |-> a, id |-> IF a.type = "SendDirectMessage" THEN 1 ELSE 2]

\* a constructor that does not take a fresh id
ActionWrapper_new_fixed_id(a, fresh_id) == [action |-> a, id |-> 1]

ActionWrapper_new(a, fresh_id) == [action |-> a, id |-> fresh_id]

\* an accessor that hands out the payload with its response flag cleared
ActionWrapper_action_unflagged(aw) ==
    IF aw.action.type = "SendDirectMessage"
    THEN [type |-> aw.action.type,
          data |-> [aw.action.data EXCEPT !.is_response = FALSE]]
    ELSE aw.action

\* ActionWrapper::action(&self) -> &Action
ActionWrapper_action(aw) == aw.action
ActionWrapper_id(aw) == aw.id

\* an equality derived from the fields, which lets the payload decide
ActionWrapper_eq_derived(x, y) == Action_eq(x.action, y.action)

\* impl PartialEq for ActionWrapper
ActionWrapper_eq(x, y) == x.id = y.id

\* a hash that feeds the payload's variant and not the id
ActionWrapper_hash_payload(aw) == <<aw.action.type>>

\* impl Hash for ActionWrapper: what is fed to the Hasher
ActionWrapper_hash(aw) == <<aw.id>>

\* a clone that takes an id of its own
ActionWrapper_clone_own_id(aw) == [action |-> aw.action, id |-> aw.id + 100]

\* derive(Clone) for ActionWrapper: every field is cloned
ActionWrapper_clone(aw) == [action |-> aw.action, id |-> aw.id]

\* HashMap<ActionWrapper, V>::insert: the entry whose key hashes and compares
\* equal gets the new value and keeps its key; without one, an entry is added
HashMap_insert(map, key, val) ==
    LET at == {i \in DOMAIN map :
                  /\ ActionWrapper_hash(map[i].key) = ActionWrapper_hash(key)
                  /\ ActionWrapper_eq(map[i].key, key)} IN
    IF at = {} THEN Append(map, [key |-> key, val |-> val])
    ELSE [i \in DOMAIN map |->
             IF i \in at THEN [key |-> map[i].key, val |-> val] ELSE map[i]]

\* snowflake::ProcessUniqueId::new(): the id handed out, and the generator after
ProcessUniqueId_new(gen) == [id |-> gen, next |-> gen + 1]

(***************************************************************************)
(* Reducers: (context, &mut sub-state, &ActionWrapper).                    *)
(***************************************************************************)
agent_reduce(agent, aw) ==
    IF aw.action.type = "Commit"
    THEN [agent EXCEPT !.chain = Append(@, Entry_address(aw.action.data[1]))]
    ELSE agent

\* the write the agent reducer makes to the chain's content storage
storage_reduce(cas, aw) ==
    IF aw.action.type = "Commit"
    THEN LET e == aw.action.data[1] IN
         [cas EXCEPT ![Entry_address(e)] = Some(Content_from_entry(e))]
    ELSE cas

\* a reducer that forgets every connection when one is resolved
network_reduce_forget_all(network, aw) ==
    IF aw.action.type = "SendDirectMessage"
    THEN [pending |-> IF aw.action.data.is_response THEN network.pending
                      ELSE network.pending \cup {aw.action.data.msg_id},
          sent |-> Append(network.sent, aw.action.data)]
    ELSE IF aw.action.type = "ResolveDirectConnection"
    THEN [network EXCEPT !.pending = {}]
    ELSE network

\* SendDirectMessage: a message that is no response opens a connection under
\* its message id; ResolveDirectConnection(id) forgets the connection id
network_reduce(network, aw) ==
    IF aw.action.type = "SendDirectMessage"
    THEN [pending |-> IF aw.action.data.is_response THEN network.pending
                      ELSE network.pending \cup {aw.action.data.msg_id},
          sent |-> Append(network.sent, aw.action.data)]
    ELSE IF aw.action.type = "ResolveDirectConnection"
    THEN [network EXCEPT !.pending = @ \ {aw.action.data}]
    ELSE network

nucleus_reduce(nucleus, aw) ==
    IF aw.action.type = "ReturnInitializationResult"
    THEN [nucleus EXCEPT !.initialization = Some(aw.action.data)]
    ELSE nucleus

State(agent, network, nucleus) ==
    [agent |-> agent, network |-> network, nucleus |-> nucleus]

\* one envelope applied to the three sub-states
reduce(st, aw) ==
    State(agent_reduce(st.agent, aw), network_reduce(st.network, aw),
          nucleus_reduce(st.nucleus, aw))

InitialAgent == [chain |-> <<"addrA">>]
InitialStorage ==
    [a \in Addresses |->
        IF a = "addrA" THEN Some(Content_from_entry("entryA"))
        ELSE IF a = "addrH" THEN Some(HeaderContent)
        ELSE None]
InitialNetwork == [pending |-> {}, sent |-> <<>>]
InitialNucleus == [initialization |-> None]
InitialState == State(InitialAgent, InitialNetwork, InitialNucleus)

(***************************************************************************)
(* The action channel and the dispatcher.                                  *)
(***************************************************************************)
\* dispatch_action(&context.action_channel, action_wrapper)
dispatch_action(channel, aw) == Append(channel, aw)

\* a receiving end that takes the newest envelope first
channel_recv_newest(channel) ==
    [aw |-> channel[Len(channel)], rest |-> SubSeq(channel, 1, Len(channel) - 1)]

\* the receiving end: the envelope received and the channel after
channel_recv(channel) == [aw |-> Head(channel), rest |-> Tail(channel)]

\* an apply step that leaves out the network reducer
dispatcher_apply_no_network(st, aw) ==
    State(agent_reduce(st.agent, aw), st.network, nucleus_reduce(st.nucleus, aw))

\* what the dispatcher's apply step makes of the state
dispatcher_apply(st, aw) == reduce(st, aw)

(***************************************************************************)
(* Container configuration (container_api/src/config.rs).                  *)
(***************************************************************************)
AgentIds == {"agentA", "agentB"}
DnaIds == {"dnaA", "dnaB"}
InstanceIds == {"inst1", "inst2"}

AgentConfiguration(id) == [id |-> id]
DNAConfiguration(id) == [id |-> id]
InstanceConfiguration(id, dna, agent) == [id |-> id, dna |-> dna, agent |-> agent]
InstanceReferenceConfiguration(id) == [id |-> id]
InterfaceConfiguration(instances) == [instances |-> instances]
Bridge(caller_id, callee_id) == [caller_id |-> caller_id, callee_id |-> callee_id]
Configuration(agents, dnas, instances, interfaces, bridges) ==
    [agents |-> agents, dnas |-> dnas, instances |-> instances,
     interfaces |-> interfaces, bridges |-> bridges]

\* derive(Default): every list empty
Configuration_default == Configuration(<<>>, <<>>, <<>>, <<>>, <<>>)

\* the unit value of Ok(())
Unit == <<>>

\* list.iter().find(|x| &x.id == id).cloned()
find_by_id(list, id) ==
    LET at == {i \in DOMAIN list : list[i].id = id} IN
    IF at = {} THEN None ELSE Some(list[CHOOSE i \in at : \A j \in at : i <= j])

agent_by_id(cfg, id) == find_by_id(cfg.agents, id)
dna_by_id(cfg, id) == find_by_id(cfg.dnas, id)
instance_by_id(cfg, id) == find_by_id(cfg.instances, id)

Option_is_some(o) == o.tag = "Some"

\* boolinator's bool.ok_or_else(f): Ok(()) for true, Err(f()) for false
ok_or_else(b, e) == IF b THEN Ok(Unit) ELSE Err(e)

\* the three format!(..) messages, as the pieces that are written out
AgentNotFound(agent, instance) ==
    <<"Agent configuration ", agent, " not found, mentioned in instance ", instance>>
DnaNotFound(dna, instance) ==
    <<"DNA configuration \"", dna, "\" not found, mentioned in instance \"",
      instance, "\"">>
InstanceNotFound(instance) ==
    <<"Instance configuration \"", instance, "\" not found, mentioned in interface">>

\* the checks of one instance with the DNA looked up before the agent
check_instance_dna_first(cfg, instance) ==
    LET d == ok_or_else(Option_is_some(dna_by_id(cfg, instance.dna)),
                        DnaNotFound(instance.dna, instance.id)) IN
    IF d.tag = "Err" THEN d
    ELSE ok_or_else(Option_is_some(agent_by_id(cfg, instance.agent)),
                    AgentNotFound(instance.agent, instance.id))

\* the body of the loop over the instances: the agent, then the DNA, each `?`
check_instance(cfg, instance) ==
    LET a == ok_or_else(Option_is_some(agent_by_id(cfg, instance.agent)),
                        AgentNotFound(instance.agent, instance.id)) IN
    IF a.tag = "Err" THEN a
    ELSE ok_or_else(Option_is_some(dna_by_id(cfg, instance.dna)),
                    DnaNotFound(instance.dna, instance.id))

\* for ref instance in self.instances.iter() { .. }
RECURSIVE check_instances(_, _)
check_instances(cfg, i) ==
    IF i > Len(cfg.instances) THEN Ok(Unit)
    ELSE LET r == check_instance(cfg, cfg.instances[i]) IN
         IF r.tag = "Err" THEN r ELSE check_instances(cfg, i + 1)

\* for ref instance in interface.instances.iter() { .. }
RECURSIVE check_references(_, _, _)
check_references(cfg, refs, j) ==
    IF j > Len(refs) THEN Ok(Unit)
    ELSE LET r == ok_or_else(Option_is_some(instance_by_id(cfg, refs[j].id)),
                             InstanceNotFound(refs[j].id)) IN
         IF r.tag = "Err" THEN r ELSE check_references(cfg, refs, j + 1)

\* a loop over the interfaces that does not look into them
RECURSIVE check_interfaces_skipped(_, _)
check_interfaces_skipped(cfg, k) ==
    IF k > Len(cfg.interfaces) THEN Ok(Unit)
    ELSE check_interfaces_skipped(cfg, k + 1)

\* for ref interface in self.interfaces.iter() { .. }
RECURSIVE check_interfaces(_, _)
check_interfaces(cfg, k) ==
    IF k > Len(cfg.interfaces) THEN Ok(Unit)
    ELSE LET r == check_references(cfg, cfg.interfaces[k].instances, 1) IN
         IF r.tag = "Err" THEN r ELSE check_interfaces(cfg, k + 1)

\* a check that also looks up both ends of every bridge
check_consistency_with_bridges(cfg) ==
    LET r == check_instances(cfg, 1)
        f == IF r.tag = "Err" THEN r ELSE check_interfaces(cfg, 1)
        bad == {b \in DOMAIN cfg.bridges :
                   \/ ~Option_is_some(instance_by_id(cfg, cfg.bridges[b].caller_id))
                   \/ ~Option_is_some(instance_by_id(cfg, cfg.bridges[b].callee_id))} IN
    IF f.tag = "Err" \/ bad = {} THEN f ELSE Err(<<"Bridge not found">>)

\* Configuration::check_consistency
check_consistency(cfg) ==
    LET r == check_instances(cfg, 1) IN
    IF r.tag = "Err" THEN r ELSE check_interfaces(cfg, 1)

\* the sequences over a set, up to a length
SeqUpTo(S, n) == UNION {[1..k -> S] : k \in 0..n}

\* the lists of the configurations that are loaded
AgentLists ==
    {<<>>, <<AgentConfiguration("agentA")>>,
     <<AgentConfiguration("agentA"), AgentConfiguration("agentB")>>}
DnaLists ==
    {<<>>, <<DNAConfiguration("dnaA")>>,
     <<DNAConfiguration("dnaA"), DNAConfiguration("dnaB")>>}
InstanceChoices ==
    {InstanceConfiguration(i, d, a) : i \in InstanceIds, d \in DnaIds, a \in AgentIds}
InterfaceChoices ==
    {InterfaceConfiguration(refs) :
        refs \in {<<>>, <<InstanceReferenceConfiguration("inst1")>>,
                  <<InstanceReferenceConfiguration("inst2")>>,
                  <<InstanceReferenceConfiguration("inst1"),
                    InstanceReferenceConfiguration("inst2")>>}}
BridgeLists ==
    {<<>>, <<Bridge("inst1", "inst2")>>,
     <<Bridge("inst1", "inst9"), Bridge("inst9", "inst2")>>}

(***************************************************************************)
(* The test command of the CLI (cmd/src/cli/test.rs).                      *)
(***************************************************************************)
TEST_DIR_NAME == "test"
DIST_DIR_NAME == "dist"
DEFAULT_BUNDLE_FILE_NAME == "bundle.json"

\* PathBuf::join below the project path: a path is the list of its components
Path_join(path, name) == Append(path, name)
ProjectPath == <<>>

\* path.exists() in a folder tree given as the set of its paths
Path_exists(fs, path) == path \in fs

\* an ensure! that lets every folder pass
ensure_tests_path_skipped(fs, tests_folder) == Ok(Unit)

\* ensure!(tests_path.exists(), "Directory {} does not exist", tests_folder)
ensure_tests_path(fs, tests_folder) ==
    IF Path_exists(fs, Path_join(ProjectPath, tests_folder)) THEN Ok(Unit)
    ELSE Err(<<"Directory ", tests_folder, " does not exist">>)

\* the project folders test() is called on, and its arguments
ProjectFolders ==
    {fs \in SUBSET {<<DIST_DIR_NAME>>, <<TEST_DIR_NAME>>,
                    <<TEST_DIR_NAME, "node_modules">>} :
        <<TEST_DIR_NAME, "node_modules">> \in fs => <<TEST_DIR_NAME>> \in fs}
TestsFolderArgs == {TEST_DIR_NAME, "west"}
CliStarts ==
    {[pc |-> "dist", fs |-> fs, tests_folder |-> t, skip_build |-> sb,
      ran |-> <<>>, result |-> None] :
        fs \in ProjectFolders, t \in TestsFolderArgs, sb \in BOOLEAN}

\* a return that removes the dist folder and the bundle when it is an error
Cli_return_cleaned(c, r) ==
    [c EXCEPT !.pc = "returned", !.result = r,
              !.fs = IF r.tag = "Err"
                     THEN @ \ {<<DIST_DIR_NAME>>,
                                <<DIST_DIR_NAME, DEFAULT_BUNDLE_FILE_NAME>>}
                     ELSE @]

\* a `?` that notes the result and goes on with the step that follows
Cli_return_goes_on(c, r) ==
    [c EXCEPT !.result = r,
              !.pc = IF c.pc = "dist" THEN "package"
                     ELSE IF c.pc = "package" THEN "ensure"
                     ELSE IF c.pc = "ensure" THEN "npm"
                     ELSE IF c.pc = "npm" THEN "node"
                     ELSE "returned"]

\* test() returns
Cli_return(c, r) == [c EXCEPT !.pc = "returned", !.result = r]

(***************************************************************************)
(* The guest API (hdk-rust/src/lib.rs) and the memory stack it marshals    *)
(* its arguments through.                                                  *)
(***************************************************************************)
\* offsets and lengths in the page of WASM memory are u16
U16_MAX == 65535

SinglePageAllocation(offset, length) == [offset |-> offset, length |-> length]
SinglePageStack(top) == [top |-> top]

\* allocation.encode(): a u32 with the offset in its high 16 bits and the
\* length in its low 16 bits, written as the pair of its two halves
Allocation_encode(a) == <<a.offset % (U16_MAX + 1), a.length % (U16_MAX + 1)>>

\* the error code an encoded value without a length stands for
RibosomeErrorCode_from_offset(offset) ==
    IF offset = 2 THEN "Out of memory" ELSE "Unspecified"

\* SinglePageAllocation::new(encoded): a length of zero encodes an error code
Allocation_decode(encoded) ==
    LET offset == encoded[1]
        length == encoded[2] IN
    IF length = 0 THEN Err(RibosomeErrorCode_from_offset(offset))
    ELSE IF offset + length > U16_MAX THEN Err("Not an allocation")
    ELSE Ok(SinglePageAllocation(offset, length))

\* SinglePageStack::from_encoded_allocation: the top is the end of the allocation
SinglePageStack_from_encoded_allocation(encoded) ==
    LET a == Allocation_decode(encoded) IN
    IF a.tag = "Err" THEN a ELSE Ok(SinglePageStack(a.val.offset + a.val.length))

\* stack.allocate(size): the offset handed out, and the stack after
SinglePageStack_allocate(stack, size) ==
    IF stack.top + size > U16_MAX
    THEN [res |-> Err("Out of memory"), stack |-> stack]
    ELSE [res |-> Ok(stack.top), stack |-> SinglePageStack(stack.top + size)]

\* stack.deallocate(allocation): only the allocation on top can be given back
SinglePageStack_deallocate(stack, a) ==
    IF stack.top = a.offset + a.length
    THEN [res |-> Ok(Unit), stack |-> SinglePageStack(a.offset)]
    ELSE [res |-> Err(Unit), stack |-> stack]

\* the JSON texts that cross the boundary, as the list of their tokens
Json_SerializedEntry(e) == <<"SerializedEntry", e>>
Json_GetEntryArgs(address) == <<"GetEntryArgs", "address", address>>
Json_RawString(msg) == <<"RawString", msg>>
Json_CommitEntryResult(r) == <<"CommitEntryResult", r.address, r.validation_failure>>
Json_GetEntryResult(r) ==
    <<"GetEntryResult", r.status,
      IF r.maybe_serialized_entry.tag = "Some" THEN r.maybe_serialized_entry.val
      ELSE "null">>
NotJson == <<"{">>

CommitEntryResult(address, validation_failure) ==
    [address |-> address, validation_failure |-> validation_failure]
GetEntryResult(status, maybe_serialized_entry) ==
    [status |-> status, maybe_serialized_entry |-> maybe_serialized_entry]

\* serde_json::from_str for the type the caller expects
Json_parse(text, expected) ==
    IF text[1] # expected THEN Err("JSON parse error")
    ELSE IF expected = "CommitEntryResult"
    THEN Ok(CommitEntryResult(text[2], text[3]))
    ELSE Ok(GetEntryResult(text[2],
                           IF text[3] = "null" THEN None ELSE Some(text[3])))

\* the page of memory: the text written at an offset
Memory_write(mem, offset, text) ==
    [o \in DOMAIN mem \cup {offset} |-> IF o = offset THEN text ELSE mem[o]]
Memory_read(mem, offset) == IF offset \in DOMAIN mem THEN mem[offset] ELSE NotJson

\* store_json(&mut stack, json): allocate the length of the text, write it
store_json(stack, mem, text) ==
    LET got == SinglePageStack_allocate(stack, Len(text)) IN
    IF got.res.tag = "Err"
    THEN [res |-> got.res, stack |-> got.stack, mem |-> mem]
    ELSE [res |-> Ok(SinglePageAllocation(got.res.val, Len(text))),
          stack |-> got.stack,
          mem |-> Memory_write(mem, got.res.val, text)]

\* store_json_into_encoded_allocation(&mut stack, json): the encoded
\* allocation of the text stored, or the encoded error code
store_json_into_encoded_allocation(stack, mem, text) ==
    LET got == store_json(stack, mem, text) IN
    [encoded |-> IF got.res.tag = "Err"
                 THEN Allocation_encode(SinglePageAllocation(2, 0))
                 ELSE Allocation_encode(got.res.val),
     stack |-> got.stack, mem |-> got.mem]

\* a call that borrows the static itself: what it does to its stack is done
\* to G_MEM_STACK
G_MEM_STACK_borrowed(global, mem_stack) == Some(mem_stack)

\* G_MEM_STACK.unwrap() takes the Option by value: the static cannot be moved
\* out of, so the stack is copied, and what the call does to its stack
\* (bound to mem_stack, or a temporary under &mut) leaves the static as it was
G_MEM_STACK_after(global, mem_stack) == global

\* load_json(encoded): decode the allocation, read the text, parse it
load_json(mem, encoded, expected) ==
    LET a == Allocation_decode(encoded) IN
    IF a.tag = "Err" THEN a
    ELSE Json_parse(Memory_read(mem, a.val.offset), expected)

RibosomeFailed(desc) == [variant |-> "RibosomeFailed", desc |-> desc]
ValidationFailed(msg) == [variant |-> "ValidationFailed", desc |-> msg]

\* a commit_entry that does not look at the validation failure
commit_entry_result_unvalidated(result) ==
    IF result.tag = "Err" THEN Err(RibosomeFailed(result.err))
    ELSE Ok(result.val.address)

\* commit_entry, from the host's result on: lines 324-340
commit_entry_result(result) ==
    IF result.tag = "Err" THEN Err(RibosomeFailed(result.err))
    ELSE IF result.val.validation_failure # ""
    THEN Err(ValidationFailed(result.val.validation_failure))
    ELSE Ok(result.val.address)

\* get_entry, from the host's result on: lines 392-406
get_entry_result(result) ==
    IF result.tag = "Err" THEN Err(RibosomeFailed(result.err))
    ELSE IF result.val.status = "Found" THEN Ok(result.val.maybe_serialized_entry)
    ELSE Ok(None)

(***************************************************************************)
(* State.                                                                  *)
(***************************************************************************)
VARIABLES
    id_gen,      \* the process's id generator (snowflake)
    channel,     \* context.action_channel: envelopes sent and not yet received
    disp,        \* the dispatcher: [pc, cur]
    state,       \* the sub-states the dispatcher owns and mutates
    snapshot,    \* the state snapshot context.state() gives to readers
    storage,     \* the content storage the chain refers to, shared under a lock
    readers,     \* the workflows holding the read guards of state and storage
    wf,          \* the workflows: position, arguments, locals
    env_count,   \* actions dispatched by the other producers
    admitted,    \* history: every envelope in the order the channel received it
    applied,     \* history: every envelope in the order the reducers ran on it
    created,     \* history: every ActionWrapper in the order new() made it
    dispatched,  \* history: per workflow, the envelopes it dispatched
    config,      \* container: the Configuration that was loaded
    consistency, \* container: what check_consistency returned for it
    cli,         \* cmd: the run of the test command and the project folder
    hdk          \* guest: G_MEM_STACK, the page of memory, the API call under way

vars == <<id_gen, channel, disp, state, snapshot, storage, readers, wf, env_count,
          admitted, applied, created, dispatched, config, consistency, cli, hdk>>

\* the state of the engine, and the state of the tools around it
engineVars == <<id_gen, channel, disp, state, snapshot, storage, readers, wf,
                env_count, admitted, applied, created, dispatched>>
toolVars == <<config, consistency, cli, hdk>>

NoWrapper == [action |-> [type |-> "None", data |-> None], id |-> 0]

InitialWorkflow ==
    [pc |-> "init", to_agent_id |-> "P", msg_id |-> "m1",
     requested_entry_address |-> "addrA",
     entry_result |-> Err("none"), build_result |-> Err("none"),
     maybe_validation_package |-> None, action_wrapper |-> NoWrapper,
     lookup |-> "none", entry_stored |-> FALSE, committed |-> None,
     build |-> "none"]

\* check_consistency has not run, the test command has not run, no guest is
\* loaded
NotChecked == None
CliNotRun == [pc |-> "not_run"]
HdkNotLoaded == [pc |-> "not_loaded"]

EngineInit ==
    /\ id_gen = 1
    /\ channel = <<>>
    /\ disp = [pc |-> "idle", cur |-> NoWrapper]
    /\ state = InitialState
    /\ snapshot = InitialState
    /\ storage = InitialStorage
    /\ readers = {}
    /\ wf = [w \in Workflows |-> InitialWorkflow]
    /\ env_count = 0
    /\ admitted = <<>>
    /\ applied = <<>>
    /\ created = <<>>
    /\ dispatched = [w \in Workflows |-> <<>>]

Init ==
    /\ EngineInit
    /\ config = Configuration_default
    /\ consistency = NotChecked
    /\ cli = CliNotRun
    /\ hdk = HdkNotLoaded

(***************************************************************************)
(* Producers other than the workflows (network handlers, the guest API).   *)
(***************************************************************************)
EnvActions ==
    <<Action_Commit("entryB"), Action_ReturnInitializationResult(None)>>

EnvDispatch ==
    /\ env_count < MaxEnvDispatch
    /\ \E i \in DOMAIN EnvActions :
         LET got == ProcessUniqueId_new(id_gen)
             aw == ActionWrapper_new(EnvActions[i], got.id) IN
         /\ id_gen' = got.next
         /\ created' = Append(created, aw)
         /\ channel' = dispatch_action(channel, aw)
         /\ admitted' = Append(admitted, aw)
    /\ env_count' = env_count + 1
    /\ UNCHANGED <<disp, state, snapshot, storage, readers, wf, applied, dispatched>>
    /\ UNCHANGED toolVars

(***************************************************************************)
(* respond_validation_package_request.                                     *)
(***************************************************************************)
\* the task is spawned with its arguments, one task per request received
WorkflowStart(w) ==
    /\ wf[w].pc = "init"
    /\ \A v \in Workflows : v < w => wf[v].pc # "init"
    /\ \E req \in Requests, addr \in Addresses :
         wf' = [wf EXCEPT ![w] = [@ EXCEPT !.pc = "get_entry",
                                          !.to_agent_id = req.from,
                                          !.msg_id = req.msg_id,
                                          !.requested_entry_address = addr]]
    /\ UNCHANGED <<id_gen, channel, disp, state, snapshot, storage, readers, env_count,
                   admitted, applied, dispatched, created>>
    /\ UNCHANGED toolVars

\* get_entry: context.state().unwrap() ... content_storage().read().unwrap()
\* Either unwrap panics when its value is missing or the lock is poisoned.
GetEntryOutcomes == {"ok", "no_state", "poisoned"}

WorkflowLock(w) ==
    /\ wf[w].pc = "get_entry"
    /\ \E outcome \in GetEntryOutcomes :
         IF outcome = "ok"
         THEN /\ readers' = readers \cup {w}
              /\ wf' = [wf EXCEPT ![w].pc = "fetch"]
         ELSE /\ readers' = readers
              /\ wf' = [wf EXCEPT ![w].pc = "panicked", ![w].lookup = outcome]
    /\ UNCHANGED <<id_gen, channel, disp, state, snapshot, storage, env_count,
                   admitted, applied, dispatched, created>>
    /\ UNCHANGED toolVars

\* a lookup whose guards outlive the statement that took them
guards_after_lookup_kept(held, w) == held

\* the read guards are temporaries of the `let raw = ...;` statement: they are
\* dropped when the statement ends, on its `?` early returns too
guards_after_lookup(held, w) == held \ {w}

\* what a lookup of the address meets in the storage
LookupCase(cas, address, ioerr) ==
    IF ioerr THEN "fetch_error"
    ELSE IF cas[address] = None THEN "not_found"
    ELSE IF cas[address].val[1] = "Entry" THEN "found"
    ELSE "not_an_entry"

\* whether the storage holds an entry under the address
EntryStored(cas, address) ==
    cas[address] # None /\ cas[address].val[1] = "Entry"

\* the entry the last applied Commit wrote under the address, if any
committed_entry(done, address) ==
    LET at == {i \in DOMAIN done :
                  /\ done[i].action.type = "Commit"
                  /\ Entry_address(done[i].action.data[1]) = address} IN
    IF at = {} THEN None
    ELSE Some(done[CHOOSE i \in at : \A j \in at : j <= i].action.data[1])

\* a match that awaits the builder whatever the lookup gave
match_arm_always_build(entry_result) == "build"

\* match get_entry(..) { Ok(entry) => await!(build..), Err(_) => None }: where
\* the workflow goes after the lookup
match_arm(entry_result) == IF entry_result.tag = "Ok" THEN "build" ELSE "dispatch"

\* get_entry: .fetch(address)?.ok_or(..)? under the guards, which are dropped
\* at the end of the statement; then Entry::try_from(raw); then the match
WorkflowFetch(w) ==
    /\ wf[w].pc = "fetch"
    /\ \E ioerr \in BOOLEAN :
         LET addr == wf[w].requested_entry_address
             res == get_entry(storage, addr, ioerr) IN
         /\ wf' = [wf EXCEPT ![w] = [@ EXCEPT
                      !.pc = match_arm(res),
                      !.entry_result = res,
                      !.maybe_validation_package =
                          maybe_package_of(res, Err("not built")),
                      !.lookup = LookupCase(storage, addr, ioerr),
                      !.entry_stored = EntryStored(storage, addr),
                      !.committed = committed_entry(applied, addr)]]
         /\ storage' = cas_after_read(storage, addr)
    /\ readers' = guards_after_lookup(readers, w)
    /\ UNCHANGED <<id_gen, channel, disp, state, snapshot, env_count,
                   admitted, applied, dispatched, created>>
    /\ UNCHANGED toolVars

\* await!(build_validation_package(&entry, &context)).ok()
WorkflowBuild(w) ==
    /\ wf[w].pc = "build"
    /\ \E ok \in BOOLEAN :
         LET res == IF ok THEN Ok(ValidationPackage_for(wf[w].entry_result.val))
                    ELSE Err("build failed") IN
         wf' = [wf EXCEPT ![w] = [@ EXCEPT
                   !.pc = "dispatch",
                   !.build_result = res,
                   !.maybe_validation_package =
                       maybe_package_of(wf[w].entry_result, res),
                   !.build = IF ok THEN "ok" ELSE "failed"]]
    /\ UNCHANGED <<id_gen, channel, disp, state, snapshot, storage, readers,
                   env_count, admitted, applied, dispatched, created>>
    /\ UNCHANGED toolVars

\* let action_wrapper = ActionWrapper::new(Action::SendDirectMessage(..))
WorkflowWrap(w) ==
    /\ wf[w].pc = "dispatch"
    /\ LET got == ProcessUniqueId_new(id_gen)
           a == respond_action(wf[w].to_agent_id, wf[w].msg_id,
                               wf[w].maybe_validation_package)
           aw == ActionWrapper_new(a, got.id) IN
       /\ id_gen' = got.next
       /\ created' = Append(created, aw)
       /\ wf' = [wf EXCEPT ![w] = [@ EXCEPT !.pc = "send", !.action_wrapper = aw]]
    /\ UNCHANGED <<channel, disp, state, snapshot, storage, readers, env_count,
                   admitted, applied, dispatched>>
    /\ UNCHANGED toolVars

\* an executor that lets the tasks complete in the order they were spawned
send_in_spawn_order(tasks, w) ==
    \A v \in Workflows : v < w => tasks[v].pc \in {"done", "cancelled", "panicked"}

\* the tasks run independently: the send of one waits for no other task
send_may_proceed(tasks, w) == TRUE

\* dispatch_action(&context.action_channel, action_wrapper); the task ends
WorkflowSend(w) ==
    /\ wf[w].pc = "send"
    /\ send_may_proceed(wf, w)
    /\ channel' = dispatch_action(channel, wf[w].action_wrapper)
    /\ admitted' = Append(admitted, wf[w].action_wrapper)
    /\ dispatched' = [dispatched EXCEPT ![w] = Append(@, wf[w].action_wrapper)]
    /\ wf' = [wf EXCEPT ![w].pc = "done"]
    /\ UNCHANGED <<id_gen, disp, state, snapshot, storage, readers, env_count,
                   applied, created>>
    /\ UNCHANGED toolVars

(***************************************************************************)
(* The dispatcher loop.                                                    *)
(***************************************************************************)
\* the loop receives the next envelope and runs the reducers on it
DispatcherApply ==
    /\ disp.pc = "idle"
    /\ channel # <<>>
    /\ LET got == channel_recv(channel) IN
       /\ got.aw.action.type = "Commit" => readers = {}
       /\ state' = dispatcher_apply(state, got.aw)
       /\ storage' = storage_reduce(storage, got.aw)
       /\ applied' = Append(applied, got.aw)
       /\ disp' = [pc |-> "publishing", cur |-> got.aw]
       /\ channel' = got.rest
    /\ UNCHANGED <<id_gen, snapshot, readers, wf, env_count, admitted,
                   dispatched, created>>
    /\ UNCHANGED toolVars

\* the new state replaces the snapshot, under the write lock of the state
DispatcherPublish ==
    /\ disp.pc = "publishing"
    /\ readers = {}
    /\ snapshot' = state
    /\ disp' = [pc |-> "idle", cur |-> NoWrapper]
    /\ UNCHANGED <<id_gen, channel, state, storage, readers, wf, env_count,
                   admitted, applied, dispatched, created>>
    /\ UNCHANGED toolVars

(***************************************************************************)
(* The direct messages of this node: the requests it sends, the answers    *)
(* it gets, and tasks that are dropped before they finish.                 *)
(***************************************************************************)
\* the message ids this node gives to the requests it sends
LocalMsgIds == {"m3", "m4"}

\* the message ids of the requests sent so far
RequestedIds(seq) ==
    {seq[i].action.data.msg_id : i \in
        {j \in DOMAIN seq : /\ seq[j].action.type = "SendDirectMessage"
                            /\ ~seq[j].action.data.is_response}}

\* a producer wraps an action and dispatches it, up to a number of actions
Produce(a, limit) ==
    /\ env_count < limit
    /\ LET got == ProcessUniqueId_new(id_gen)
           aw == ActionWrapper_new(a, got.id) IN
       /\ id_gen' = got.next
       /\ created' = Append(created, aw)
       /\ channel' = dispatch_action(channel, aw)
       /\ admitted' = Append(admitted, aw)
    /\ env_count' = env_count + 1
    /\ UNCHANGED <<disp, state, snapshot, storage, readers, wf, applied, dispatched>>
    /\ UNCHANGED toolVars

\* the request this node sends under a message id
request_action(msg_id) ==
    Action_SendDirectMessage(
        DirectMessageData("Q", DirectMessage_RequestValidationPackage("addrA"),
                          msg_id, FALSE))

\* this node sends a request, under a message id not used before
NetRequest ==
    \E m \in LocalMsgIds \ RequestedIds(admitted) :
        Produce(request_action(m), MaxNetDispatch)

\* an answer came in under a message id: its connection is resolved
NetResolve ==
    \E m \in LocalMsgIds :
        Produce(Action_ResolveDirectConnection(m), MaxNetDispatch)

\* this node answers a request of a peer, as a
\* respond_validation_package_request task does that found no entry
NetRespond ==
    \E req \in Requests :
        Produce(respond_action(req.from, req.msg_id, None), MaxNetDispatch)

NetNext ==
    \/ NetRequest
    \/ NetResolve
    \/ NetRespond
    \/ DispatcherApply
    \/ DispatcherPublish

NetSpec == Init /\ [][NetNext]_vars

\* a producer that holds a wrapper it dispatched dispatches a clone of it
CloneDispatch ==
    /\ env_count < MaxNetDispatch
    /\ \E k \in DOMAIN created :
         LET aw == ActionWrapper_clone(created[k]) IN
         /\ channel' = dispatch_action(channel, aw)
         /\ admitted' = Append(admitted, aw)
    /\ env_count' = env_count + 1
    /\ UNCHANGED <<id_gen, created, disp, state, snapshot, storage, readers, wf,
                   applied, dispatched>>
    /\ UNCHANGED toolVars

CloneNext ==
    \/ NetRequest
    \/ NetRespond
    \/ CloneDispatch
    \/ DispatcherApply
    \/ DispatcherPublish

CloneSpec == Init /\ [][CloneNext]_vars

\* this node has a request of its own under way while it answers its peers
LocalRequest ==
    \E m \in LocalMsgIds \ RequestedIds(admitted) :
        Produce(request_action(m), MaxEnvDispatch)

\* the positions in which a task is not running: created and not yet polled,
\* and suspended in await!(build_validation_package(..))
SuspensionPoints == {"get_entry", "build"}

\* the task is dropped where it is suspended (instance teardown, an executor
\* that is shut down): nothing after that position runs
WorkflowCancel(w) ==
    /\ wf[w].pc \in SuspensionPoints
    /\ wf' = [wf EXCEPT ![w].pc = "cancelled"]
    /\ UNCHANGED <<id_gen, channel, disp, state, snapshot, storage, readers,
                   env_count, admitted, applied, dispatched, created>>
    /\ UNCHANGED toolVars

CancelNext ==
    \/ LocalRequest
    \/ \E w \in Workflows : WorkflowStart(w)
    \/ \E w \in Workflows : WorkflowLock(w)
    \/ \E w \in Workflows : WorkflowFetch(w)
    \/ \E w \in Workflows : WorkflowBuild(w)
    \/ \E w \in Workflows : WorkflowWrap(w)
    \/ \E w \in Workflows : WorkflowSend(w)
    \/ \E w \in Workflows : WorkflowCancel(w)
    \/ DispatcherApply
    \/ DispatcherPublish

CancelSpec == Init /\ [][CancelNext]_vars

\* a task that can take its next step takes it: the executor polls every task
\* that is ready, the storage read and the builder return, and the channel's
\* send does not block; nothing forces a task to be started or dropped
WorkflowFairness(w) ==
    /\ WF_vars(WorkflowLock(w))
    /\ WF_vars(WorkflowFetch(w))
    /\ WF_vars(WorkflowBuild(w))
    /\ WF_vars(WorkflowWrap(w))
    /\ WF_vars(WorkflowSend(w))

LiveSpec ==
    /\ Init
    /\ [][CancelNext]_vars
    /\ \A w \in Workflows : WorkflowFairness(w)
    /\ WF_vars(DispatcherApply)
    /\ WF_vars(DispatcherPublish)

(***************************************************************************)
(* The container checks the configuration it loaded.                       *)
(***************************************************************************)
ConfigInit ==
    /\ EngineInit
    /\ \E a \in AgentLists, d \in DnaLists :
         \E i \in SeqUpTo(InstanceChoices, MaxInstances) :
            \E f \in SeqUpTo(InterfaceChoices, MaxInterfaces) :
               \E b \in BridgeLists : config = Configuration(a, d, i, f, b)
    /\ consistency = NotChecked
    /\ cli = CliNotRun
    /\ hdk = HdkNotLoaded

ConfigCheck ==
    /\ consistency = NotChecked
    /\ consistency' = check_consistency(config)
    /\ UNCHANGED <<config, cli, hdk>>
    /\ UNCHANGED engineVars

ConfigNext == ConfigCheck

ConfigSpec == ConfigInit /\ [][ConfigNext]_vars

(***************************************************************************)
(* A run of the test command.                                              *)
(***************************************************************************)
CliInit ==
    /\ EngineInit
    /\ config = Configuration_default
    /\ consistency = NotChecked
    /\ cli \in CliStarts
    /\ hdk = HdkNotLoaded

\* if !dist_path.exists() { fs::create_dir(dist_path.as_path())?; }
CliDist ==
    /\ cli.pc = "dist"
    /\ LET dist_path == Path_join(ProjectPath, DIST_DIR_NAME) IN
       IF Path_exists(cli.fs, dist_path)
       THEN cli' = [cli EXCEPT !.pc = "package"]
       ELSE \E ok \in BOOLEAN :
              cli' = IF ok
                     THEN [cli EXCEPT !.pc = "package",
                                      !.fs = @ \cup {dist_path},
                                      !.ran = Append(@, "create_dir")]
                     ELSE Cli_return([cli EXCEPT !.ran = Append(@, "create_dir")],
                                     Err(<<"create_dir failed">>))
    /\ UNCHANGED <<config, consistency, hdk>>
    /\ UNCHANGED engineVars

\* if !skip_build { package(true, Some(bundle_file_path.to_path_buf()))?; }
CliPackage ==
    /\ cli.pc = "package"
    /\ LET bundle_file_path ==
               Path_join(Path_join(ProjectPath, DIST_DIR_NAME),
                         DEFAULT_BUNDLE_FILE_NAME) IN
       IF cli.skip_build
       THEN cli' = [cli EXCEPT !.pc = "ensure"]
       ELSE \E ok \in BOOLEAN :
              cli' = IF ok
                     THEN [cli EXCEPT !.pc = "ensure",
                                      !.fs = @ \cup {bundle_file_path},
                                      !.ran = Append(@, "package")]
                     ELSE Cli_return([cli EXCEPT !.ran = Append(@, "package")],
                                     Err(<<"package failed">>))
    /\ UNCHANGED <<config, consistency, hdk>>
    /\ UNCHANGED engineVars

\* let tests_path = path.join(&tests_folder); ensure!(tests_path.exists(), ..)
CliEnsure ==
    /\ cli.pc = "ensure"
    /\ LET r == ensure_tests_path(cli.fs, cli.tests_folder) IN
       cli' = IF r.tag = "Ok" THEN [cli EXCEPT !.pc = "npm"] ELSE Cli_return(cli, r)
    /\ UNCHANGED <<config, consistency, hdk>>
    /\ UNCHANGED engineVars

\* if !node_modules_path.exists() { util::run_cmd(tests_path, "npm", ..)?; }
CliNpmInstall ==
    /\ cli.pc = "npm"
    /\ LET tests_path == Path_join(ProjectPath, cli.tests_folder)
           node_modules_path == Path_join(tests_path, "node_modules") IN
       IF Path_exists(cli.fs, node_modules_path)
       THEN cli' = [cli EXCEPT !.pc = "node"]
       ELSE \E ok \in BOOLEAN :
              cli' = IF ok
                     THEN [cli EXCEPT !.pc = "node",
                                      !.fs = @ \cup {node_modules_path},
                                      !.ran = Append(@, "npm")]
                     ELSE Cli_return([cli EXCEPT !.ran = Append(@, "npm")],
                                     Err(<<"npm failed">>))
    /\ UNCHANGED <<config, consistency, hdk>>
    /\ UNCHANGED engineVars

\* util::run_cmd(path, "node", vec![testfile])?; Ok(())
CliNode ==
    /\ cli.pc = "node"
    /\ \E ok \in BOOLEAN :
         cli' = Cli_return([cli EXCEPT !.ran = Append(@, "node")],
                           IF ok THEN Ok(Unit) ELSE Err(<<"node failed">>))
    /\ UNCHANGED <<config, consistency, hdk>>
    /\ UNCHANGED engineVars

CliNext ==
    \/ CliDist
    \/ CliPackage
    \/ CliEnsure
    \/ CliNpmInstall
    \/ CliNode

CliSpec == CliInit /\ [][CliNext]_vars

(***************************************************************************)
(* The guest calls the API: one call at a time, in a single thread.        *)
(***************************************************************************)
\* the number of API calls of the guest
MaxHdkCalls == 2

\* G_MEM_STACK is None until init_memory_stack runs
HdkLoaded ==
    [pc |-> "idle", g_mem_stack |-> None, fn |-> "none", text |-> NotJson,
     mem_stack |-> SinglePageStack(0), allocation_of_input |-> None,
     encoded_allocation_of_result |-> <<0, 0>>, loaded |-> None, result |-> None,
     memory |-> <<>>, calls |-> 0, fault |-> "none"]

HdkInit ==
    /\ EngineInit
    /\ config = Configuration_default
    /\ consistency = NotChecked
    /\ cli = CliNotRun
    /\ hdk = HdkLoaded

\* the encoded allocations of the input a zome function is called with
InputAllocations ==
    {Allocation_encode(SinglePageAllocation(4, 4)),
     Allocation_encode(SinglePageAllocation(U16_MAX - 5, 4)),
     Allocation_encode(SinglePageAllocation(0, 0))}

\* init_memory_stack: G_MEM_STACK = Some(from_encoded_allocation(..).unwrap())
HdkInitMemoryStack ==
    /\ hdk.pc \in {"idle", "returned"}
    /\ \E encoded \in InputAllocations :
         LET stack == SinglePageStack_from_encoded_allocation(encoded) IN
         hdk' = IF stack.tag = "Err"
                THEN [hdk EXCEPT !.pc = "panicked", !.fault = "init unwrap"]
                ELSE [hdk EXCEPT !.g_mem_stack = Some(stack.val)]
    /\ UNCHANGED <<config, consistency, cli>>
    /\ UNCHANGED engineVars

\* what the guest passes to debug, commit_entry and get_entry
HdkInputs ==
    {[fn |-> "debug", text |-> Json_RawString("hello")]}
    \cup {[fn |-> "commit_entry", text |-> Json_SerializedEntry(e)] : e \in Entries}
    \cup {[fn |-> "get_entry", text |-> Json_GetEntryArgs(a)] : a \in {"addrA", "addrB"}}

\* let mut mem_stack = unsafe { G_MEM_STACK.unwrap() }: the call works on a
\* copy of the global stack, and panics when there is none
HdkCall ==
    /\ hdk.pc \in {"idle", "returned"}
    /\ hdk.calls < MaxHdkCalls
    /\ \E in \in HdkInputs :
         hdk' = IF hdk.g_mem_stack = None
                THEN [hdk EXCEPT !.pc = "panicked", !.fault = "stack unwrap"]
                ELSE [hdk EXCEPT !.pc = "store", !.fn = in.fn, !.text = in.text,
                                 !.mem_stack = hdk.g_mem_stack.val,
                                 !.allocation_of_input = None,
                                 !.encoded_allocation_of_result = <<0, 0>>,
                                 !.loaded = None, !.result = None,
                                 !.calls = @ + 1]
    /\ UNCHANGED <<config, consistency, cli>>
    /\ UNCHANGED engineVars

\* store_json(&mut mem_stack, ..); if let Err(err_code) = .. { return Err(..) }
HdkStore ==
    /\ hdk.pc = "store"
    /\ LET got == store_json(hdk.mem_stack, hdk.memory, hdk.text) IN
       hdk' = IF got.res.tag = "Err"
              THEN [hdk EXCEPT !.pc = "returned",
                               !.result = Err(RibosomeFailed(got.res.err))]
              ELSE [hdk EXCEPT !.pc = "host", !.mem_stack = got.stack,
                               !.g_mem_stack = G_MEM_STACK_after(@, got.stack),
                               !.memory = got.mem,
                               !.allocation_of_input = Some(got.res.val)]
    /\ UNCHANGED <<config, consistency, cli>>
    /\ UNCHANGED engineVars

\* what the host can answer to a call: a result of the call's type, a text
\* that is no JSON, or no text at all
HostTexts(fn) ==
    IF fn = "commit_entry"
    THEN {Json_CommitEntryResult(CommitEntryResult("addrA", "")),
          Json_CommitEntryResult(CommitEntryResult("", "entry is not valid")),
          NotJson}
    ELSE {Json_GetEntryResult(GetEntryResult("Found", Some("entryA"))),
          Json_GetEntryResult(GetEntryResult("Found", None)),
          Json_GetEntryResult(GetEntryResult("NotFound", None)),
          Json_GetEntryResult(GetEntryResult("NotFound", Some("entryA"))),
          NotJson}

\* hc_debug, hc_commit_entry, hc_get_entry: the host reads the input and, for
\* the last two, returns the encoded allocation of its result, which it wrote
\* above the input, or an encoded error code
HdkHost ==
    /\ hdk.pc = "host"
    /\ IF hdk.fn = "debug"
       THEN hdk' = [hdk EXCEPT !.pc = "release"]
       ELSE LET input == hdk.allocation_of_input.val
                at == input.offset + input.length IN
            \/ \E text \in HostTexts(hdk.fn) :
                  /\ at + Len(text) <= U16_MAX
                  /\ hdk' = [hdk EXCEPT
                        !.pc = "load",
                        !.memory = Memory_write(@, at, text),
                        !.encoded_allocation_of_result =
                            Allocation_encode(SinglePageAllocation(at, Len(text)))]
            \/ \E code \in {1, 2} :
                  hdk' = [hdk EXCEPT
                        !.pc = "load",
                        !.encoded_allocation_of_result =
                            Allocation_encode(SinglePageAllocation(code, 0))]
    /\ UNCHANGED <<config, consistency, cli>>
    /\ UNCHANGED engineVars

\* the type load_json is asked for by the call
ExpectedResult(fn) ==
    IF fn = "commit_entry" THEN "CommitEntryResult" ELSE "GetEntryResult"

\* let result = load_json(..); if let Err(err_str) = result { return Err(..) }
HdkLoad ==
    /\ hdk.pc = "load"
    /\ LET result == load_json(hdk.memory, hdk.encoded_allocation_of_result,
                               ExpectedResult(hdk.fn)) IN
       hdk' = IF result.tag = "Err"
              THEN [hdk EXCEPT !.pc = "returned", !.loaded = result,
                               !.result = IF hdk.fn = "commit_entry"
                                          THEN commit_entry_result(result)
                                          ELSE get_entry_result(result)]
              ELSE [hdk EXCEPT !.pc = "release", !.loaded = result]
    /\ UNCHANGED <<config, consistency, cli>>
    /\ UNCHANGED engineVars

\* mem_stack.deallocate(allocation_of_input).expect(..), then the value returned
HdkRelease ==
    /\ hdk.pc = "release"
    /\ LET freed == SinglePageStack_deallocate(hdk.mem_stack,
                                               hdk.allocation_of_input.val) IN
       hdk' = IF freed.res.tag = "Err"
              THEN [hdk EXCEPT !.pc = "panicked", !.fault = "deallocate failed"]
              ELSE [hdk EXCEPT
                      !.pc = "returned",
                      !.mem_stack = freed.stack,
                      !.g_mem_stack = G_MEM_STACK_after(@, freed.stack),
                      !.result = IF hdk.fn = "debug" THEN Ok(Unit)
                                 ELSE IF hdk.fn = "commit_entry"
                                 THEN commit_entry_result(hdk.loaded)
                                 ELSE get_entry_result(hdk.loaded)]
    /\ UNCHANGED <<config, consistency, cli>>
    /\ UNCHANGED engineVars

\* what a zome function hands to serialize_wasm_output
WasmOutputs == {Json_RawString("done"), Json_RawString("")}

\* serialize_wasm_output: store_json_into_encoded_allocation on a temporary
\* copy of the global stack; the encoded allocation is the value returned
HdkSerialize ==
    /\ hdk.pc \in {"idle", "returned"}
    /\ hdk.calls < MaxHdkCalls
    /\ \E output \in WasmOutputs :
         hdk' = IF hdk.g_mem_stack = None
                THEN [hdk EXCEPT !.pc = "panicked", !.fault = "stack unwrap"]
                ELSE LET got == store_json_into_encoded_allocation(
                                    hdk.g_mem_stack.val, hdk.memory, output) IN
                     [hdk EXCEPT !.pc = "returned",
                                 !.fn = "serialize_wasm_output",
                                 !.text = output,
                                 !.mem_stack = got.stack,
                                 !.g_mem_stack = G_MEM_STACK_after(@, got.stack),
                                 !.memory = got.mem,
                                 !.allocation_of_input = None,
                                 !.encoded_allocation_of_result = <<0, 0>>,
                                 !.loaded = None,
                                 !.result = Ok(got.encoded),
                                 !.calls = @ + 1]
    /\ UNCHANGED <<config, consistency, cli>>
    /\ UNCHANGED engineVars

HdkNext ==
    \/ HdkInitMemoryStack
    \/ HdkCall
    \/ HdkSerialize
    \/ HdkStore
    \/ HdkHost
    \/ HdkLoad
    \/ HdkRelease

HdkSpec == HdkInit /\ [][HdkNext]_vars

Next ==
    \/ EnvDispatch
    \/ \E w \in Workflows : WorkflowStart(w)
    \/ \E w \in Workflows : WorkflowLock(w)
    \/ \E w \in Workflows : WorkflowFetch(w)
    \/ \E w \in Workflows : WorkflowBuild(w)
    \/ \E w \in Workflows : WorkflowWrap(w)
    \/ \E w \in Workflows : WorkflowSend(w)
    \/ DispatcherApply
    \/ DispatcherPublish

Spec == Init /\ [][Next]_vars

(***************************************************************************)
(* Properties.                                                             *)
(***************************************************************************)
\* two different constructions whose payloads are value-equal
EqualPayloadsBuilt ==
    \E i, j \in DOMAIN created :
        i # j /\ Action_eq(ActionWrapper_action(created[i]),
                           ActionWrapper_action(created[j]))

\* C1: the ids of all wrappers made by ActionWrapper::new are pairwise
\* distinct, also when the payloads are value-equal: no id is handed out twice.
C1_IdsPairwiseDistinct ==
    \A i, j \in DOMAIN created :
        i # j => ActionWrapper_id(created[i]) # ActionWrapper_id(created[j])

C1_Witness ==
    /\ Len(created) >= 3
    /\ EqualPayloadsBuilt

\* C2: wrappers compare equal exactly when their ids are equal: a wrapper
\* equals itself, and two wrappers built independently are not equal, also
\* when their payloads are equal.
C2_EqualityIsIdentity ==
    \A i, j \in DOMAIN created :
        /\ ActionWrapper_eq(created[i], created[j])
              <=> (ActionWrapper_id(created[i]) = ActionWrapper_id(created[j]))
        /\ ActionWrapper_eq(created[i], created[j]) <=> (i = j)

C2_Witness ==
    \E i, j \in DOMAIN created :
        /\ i # j
        /\ Action_eq(created[i].action, created[j].action)
        /\ ~ActionWrapper_eq(created[i], created[j])
        /\ ActionWrapper_eq(created[i], created[i])

\* C3: the hash is a function of the id only and agrees with equality: equal
\* wrappers hash equal, and two wrappers built independently hash differently,
\* also when their payloads are equal.
C3_HashAgreesWithEquality ==
    \A i, j \in DOMAIN created :
        /\ ActionWrapper_eq(created[i], created[j])
              => ActionWrapper_hash(created[i]) = ActionWrapper_hash(created[j])
        /\ (ActionWrapper_id(created[i]) = ActionWrapper_id(created[j]))
              => ActionWrapper_hash(created[i]) = ActionWrapper_hash(created[j])
        /\ i # j => ActionWrapper_hash(created[i]) # ActionWrapper_hash(created[j])

C3_Witness ==
    \E i, j \in DOMAIN created :
        /\ i # j
        /\ Action_eq(created[i].action, created[j].action)
        /\ ActionWrapper_hash(created[i]) # ActionWrapper_hash(created[j])

\* the ids of a sequence of envelopes
Ids(seq) == [i \in DOMAIN seq |-> ActionWrapper_id(seq[i])]

\* C4: every envelope admitted to the dispatcher is applied to the reducers
\* exactly once, never dropped and never applied twice, and envelopes are
\* applied in the order in which the dispatcher received them.
C4_AppliedOnceInAdmissionOrder ==
    /\ Len(applied) <= Len(admitted)
    /\ \A i \in DOMAIN applied :
          /\ ActionWrapper_eq(applied[i], admitted[i])
          /\ Action_eq(applied[i].action, admitted[i].action)
    /\ \A i, j \in DOMAIN applied : i # j => ~ActionWrapper_eq(applied[i], applied[j])
    /\ Ids(admitted) = Ids(applied) \o Ids(channel)

C4_Witness ==
    /\ Len(applied) = 3
    /\ channel = <<>>
    /\ applied[1].action.type = "SendDirectMessage"
    /\ applied[2].action.type = "Commit"
    /\ applied[3].action.type = "SendDirectMessage"

\* the sequential fold of the reducers over a sequence of envelopes
RECURSIVE FoldReduce(_, _)
FoldReduce(st, seq) ==
    IF seq = <<>> THEN st ELSE FoldReduce(reduce(st, Head(seq)), Tail(seq))

RECURSIVE FoldStorage(_, _)
FoldStorage(cas, seq) ==
    IF seq = <<>> THEN cas ELSE FoldStorage(storage_reduce(cas, Head(seq)), Tail(seq))

\* C5: the agent, network and nucleus sub-states equal the sequential fold of
\* the reducers over the envelopes in admission order, whatever the interleaving
\* of the producers: over those applied so far at any time, and over the whole
\* admission sequence once the channel is drained; the published snapshot is
\* that fold too once the dispatcher is idle.
C5_StateIsFoldOfAdmissionOrder ==
    /\ state = FoldReduce(InitialState, applied)
    /\ storage = FoldStorage(InitialStorage, applied)
    /\ channel = <<>> => state = FoldReduce(InitialState, admitted)
    /\ disp.pc = "idle" => snapshot = FoldReduce(InitialState, applied)

C5_Witness ==
    /\ Len(applied) = 3
    /\ channel = <<>>
    /\ disp.pc = "idle"
    /\ \E i, j \in DOMAIN applied :
          /\ i < j
          /\ applied[i].action.type = "SendDirectMessage"
          /\ applied[j].action.type = "SendDirectMessage"
          /\ applied[i].action.data # applied[j].action.data
    /\ \E i \in DOMAIN applied : applied[i].action.type = "Commit"
    /\ state.agent # InitialAgent
    /\ state.network # InitialNetwork
    /\ storage # InitialStorage

\* C6: sub-state is mutated only in the dispatcher's apply step, one envelope
\* at a time: a step that changes the sub-states is a step of the idle
\* dispatcher that applies exactly one envelope, no application starts while
\* another is unpublished, the snapshot changes only when the dispatcher
\* publishes, and no step of a workflow changes the state or the snapshot.
C6_SingleWriter ==
    /\ [][state' # state \/ storage' # storage =>
            /\ disp.pc = "idle" /\ disp'.pc = "publishing"
            /\ Len(applied') = Len(applied) + 1
            /\ wf' = wf]_vars
    /\ [][disp.pc = "publishing" =>
            state' = state /\ storage' = storage /\ applied' = applied]_vars
    /\ [][snapshot' # snapshot =>
            /\ disp.pc = "publishing" /\ disp'.pc = "idle"
            /\ snapshot' = state
            /\ wf' = wf]_vars
    /\ [][wf' # wf =>
            state' = state /\ storage' = storage /\ snapshot' = snapshot]_vars

C6_Witness ==
    /\ disp.pc = "publishing"
    /\ channel # <<>>
    /\ state # snapshot
    /\ 1 \in readers
    /\ wf[2].pc = "done"

\* the action a completed workflow dispatched, and the package it carries
Dispatched(w) == dispatched[w][1].action
DispatchedPackage(w) == Dispatched(w).data.message.package

\* the response that carries no package
AbsentResponse(to_agent_id, msg_id) ==
    [type |-> "SendDirectMessage",
     data |-> [address |-> to_agent_id,
               message |-> [variant |-> "ValidationPackage",
                            package |-> [tag |-> "None"]],
               msg_id |-> msg_id,
               is_response |-> TRUE]]

\* C7: a workflow that ran to completion dispatched exactly one action, and
\* none before it completed; that action is SendDirectMessage to the
\* to_agent_id argument, with the msg_id argument unchanged and the response
\* flag true, whatever the lookup and the builder gave.
C7_ExactlyOneResponseDispatched ==
    \A w \in Workflows :
        /\ wf[w].pc # "done" => Len(dispatched[w]) = 0
        /\ wf[w].pc = "done" =>
              /\ Len(dispatched[w]) = 1
              /\ Cardinality({i \in DOMAIN admitted :
                                admitted[i].id = dispatched[w][1].id}) = 1
              /\ Dispatched(w).type = "SendDirectMessage"
              /\ Dispatched(w).data.address = wf[w].to_agent_id
              /\ Dispatched(w).data.msg_id = wf[w].msg_id
              /\ Dispatched(w).data.is_response = TRUE
              /\ Dispatched(w).data.message.variant = "ValidationPackage"

C7_Witness ==
    /\ wf[1].pc = "done" /\ wf[2].pc = "done"
    /\ wf[1].lookup = "found" /\ wf[1].build = "ok"
    /\ wf[2].lookup = "not_found"
    /\ wf[1].to_agent_id = "Q" /\ wf[2].to_agent_id = "P"
    /\ Len(applied) = 2

\* C8: when the requested address is absent from the storage the workflow
\* reports no error: it completes, and what it dispatches is SendDirectMessage
\* with ValidationPackage(None), the response flag true and the message id of
\* the request.
C8_AbsentEntryGivesNone ==
    \A w \in Workflows :
        wf[w].lookup = "not_found" =>
            /\ wf[w].pc \in {"dispatch", "send", "done"}
            /\ wf[w].maybe_validation_package = None
            /\ wf[w].pc = "done" =>
                  Action_eq(Dispatched(w),
                            AbsentResponse(wf[w].to_agent_id, wf[w].msg_id))

C8_Witness ==
    \E w \in Workflows :
        /\ wf[w].pc = "done"
        /\ wf[w].lookup = "not_found"
        /\ wf[w].requested_entry_address = "addrB"
        /\ wf[w].msg_id = "m2"
        /\ DispatchedPackage(w) = None

\* C9: when the entry is found and build_validation_package fails, the failure
\* is not propagated: the workflow completes and dispatches the very action it
\* dispatches for an entry that was not found.
C9_BuildFailureCollapsesToNone ==
    \A w \in Workflows :
        (wf[w].lookup = "found" /\ wf[w].build = "failed") =>
            /\ wf[w].pc \in {"dispatch", "send", "done"}
            /\ wf[w].pc = "done" =>
                  /\ Action_eq(Dispatched(w),
                               AbsentResponse(wf[w].to_agent_id, wf[w].msg_id))
                  /\ \A v \in Workflows :
                        (/\ wf[v].pc = "done"
                         /\ wf[v].lookup = "not_found"
                         /\ wf[v].to_agent_id = wf[w].to_agent_id
                         /\ wf[v].msg_id = wf[w].msg_id)
                        => Action_eq(Dispatched(v), Dispatched(w))

C9_Witness ==
    \E w, v \in Workflows :
        /\ wf[w].pc = "done" /\ wf[w].lookup = "found" /\ wf[w].build = "failed"
        /\ wf[v].pc = "done" /\ wf[v].lookup = "not_found"
        /\ wf[v].msg_id = wf[w].msg_id
        /\ Action_eq(Dispatched(v), Dispatched(w))

\* C10 as stated: the response for an address whose entry exists in the
\* storage carries Some(p), and for an address that is absent it carries None.
C10_Original ==
    \A w \in Workflows :
        wf[w].pc = "done" =>
            /\ wf[w].entry_stored => DispatchedPackage(w).tag = "Some"
            /\ wf[w].lookup = "not_found" => DispatchedPackage(w) = None

\* C10, amended: the response carries Some(p), with p the package the builder
\* returned, exactly when the entry exists in the storage, the lookup succeeds
\* and the builder returns Ok(p); in every other completed run (absent address,
\* failed fetch, content that is no entry, failed build) it carries None.
C10_PackageIffFoundAndBuilt ==
    \A w \in Workflows :
        wf[w].pc = "done" =>
            /\ (wf[w].lookup = "found" /\ wf[w].build = "ok") =>
                  /\ wf[w].entry_stored
                  /\ DispatchedPackage(w) = Some(wf[w].build_result.val)
                  /\ DispatchedPackage(w).val.chain_header
                        = wf[w].requested_entry_address
            /\ ~(wf[w].lookup = "found" /\ wf[w].build = "ok") =>
                  DispatchedPackage(w) = None

C10_Witness ==
    /\ wf[1].pc = "done" /\ wf[2].pc = "done"
    /\ wf[1].requested_entry_address = "addrB" /\ wf[1].lookup = "not_found"
    /\ DispatchedPackage(1) = None
    /\ wf[2].requested_entry_address = "addrB" /\ wf[2].lookup = "found"
    /\ wf[2].build = "ok"
    /\ DispatchedPackage(2) = Some([chain_header |-> "addrB"])

\* C11 as stated: whatever fails in the workflow (no state snapshot, a storage
\* lock that cannot be taken, a fetch error, a missing entry, content that is
\* no Entry, a failed build), the workflow never panics and goes on to
\* dispatch its SendDirectMessage.
C11_FailuresAbsorbed ==
    \A w \in Workflows :
        /\ wf[w].pc # "panicked"
        /\ wf[w].lookup \in {"no_state", "poisoned", "fetch_error", "not_found",
                             "not_an_entry"}
              => wf[w].pc \in {"dispatch", "send", "done"}
        /\ wf[w].build = "failed" => wf[w].pc \in {"dispatch", "send", "done"}

\* what an envelope is to the connection of a message id
IsRequest(aw, m) ==
    /\ aw.action.type = "SendDirectMessage"
    /\ ~aw.action.data.is_response
    /\ aw.action.data.msg_id = m
IsResponse(aw) ==
    /\ aw.action.type = "SendDirectMessage"
    /\ aw.action.data.is_response
IsResolve(aw, m) ==
    /\ aw.action.type = "ResolveDirectConnection"
    /\ aw.action.data = m

\* C12: while the connection of a message id m is pending, applying a
\* response or a ResolveDirectConnection that carries another message id
\* leaves it pending; a step takes m out of the pending table only by applying
\* the ResolveDirectConnection of exactly m, and applying that one does.
C12_OnlyExactIdResolves ==
    [][\A m \in LocalMsgIds :
          (m \in state.network.pending /\ applied' # applied) =>
              LET aw == applied'[Len(applied')] IN
              /\ (IsResponse(aw) /\ aw.action.data.msg_id # m)
                    => m \in state'.network.pending
              /\ (aw.action.type = "ResolveDirectConnection" /\ ~IsResolve(aw, m))
                    => m \in state'.network.pending
              /\ m \notin state'.network.pending => IsResolve(aw, m)
              /\ IsResolve(aw, m) => m \notin state'.network.pending]_vars

C12_Witness ==
    /\ Len(applied) = 4
    /\ IsRequest(applied[1], "m3")
    /\ IsRequest(applied[2], "m4")
    /\ \E i, j \in 3..4 : IsResponse(applied[i]) /\ IsResolve(applied[j], "m4")
    /\ state.network.pending = {"m3"}
    /\ snapshot.network.pending = {"m3"}

\* C14: a workflow that was dropped before its dispatch has dispatched
\* nothing and holds no guard, and the pending table of the network
\* sub-state, as applied and as published, holds no connection under its
\* message id, also when the same request was answered by another task.
C14_NoConnectionLeftByCancelled ==
    \A w \in Workflows :
        wf[w].pc = "cancelled" =>
            /\ dispatched[w] = <<>>
            /\ wf[w].action_wrapper = NoWrapper
            /\ w \notin readers
            /\ wf[w].msg_id \notin state.network.pending
            /\ wf[w].msg_id \notin snapshot.network.pending

C14_Witness ==
    /\ wf[1].pc = "cancelled" /\ wf[1].lookup = "found"
    /\ wf[2].pc = "done" /\ wf[2].msg_id = wf[1].msg_id
    /\ channel = <<>> /\ disp.pc = "idle"
    /\ Len(applied) = 2
    /\ state.network.pending = {"m3"}

\* the workflows that ran to completion, and the admitted envelopes that a
\* workflow dispatched
Completed == {w \in Workflows : wf[w].pc = "done"}
DispatchedByWorkflows ==
    {i \in DOMAIN admitted :
        \E w \in Workflows :
            \E k \in DOMAIN dispatched[w] :
                ActionWrapper_eq(admitted[i], dispatched[w][k])}

\* C15: with two workflows running concurrently for requests of P and Q, in
\* every interleaving each workflow dispatches one SendDirectMessage when it
\* completes and none otherwise, no envelope of a workflow is applied twice,
\* and the envelopes dispatched by the workflows are as many as the workflows
\* that completed.
C15_OneEnvelopePerCompletedWorkflow ==
    /\ \A w \in Workflows :
          /\ Len(dispatched[w]) = (IF w \in Completed THEN 1 ELSE 0)
          /\ \A k \in DOMAIN dispatched[w] :
                /\ dispatched[w][k].action.type = "SendDirectMessage"
                /\ dispatched[w][k].action.data.address = wf[w].to_agent_id
                /\ Cardinality({i \in DOMAIN applied :
                       ActionWrapper_eq(applied[i], dispatched[w][k])}) <= 1
    /\ Cardinality(DispatchedByWorkflows) = Cardinality(Completed)

C15_Witness ==
    /\ Completed = Workflows
    /\ wf[1].to_agent_id = "P" /\ wf[2].to_agent_id = "Q"
    /\ Len(admitted) >= 2
    /\ ActionWrapper_eq(admitted[1], dispatched[2][1])
    /\ \E i \in DOMAIN applied : ActionWrapper_eq(applied[i], dispatched[1][1])
    /\ \E i \in DOMAIN applied : ActionWrapper_eq(applied[i], dispatched[2][1])

\* C16: the read guards taken by the entry lookup are held for that lookup
\* only: a workflow holds them in no other position, and none is held by a
\* workflow suspended in the await on build_validation_package.
C16_LockNotHeldAcrossAwait ==
    \A w \in Workflows :
        /\ w \in readers => wf[w].pc = "fetch"
        /\ wf[w].pc = "build" => w \notin readers

C16_Witness ==
    /\ wf[1].pc = "build"
    /\ wf[1].lookup = "found"
    /\ 2 \in readers
    /\ 1 \notin readers

IdsOf(list) == {list[i].id : i \in DOMAIN list}

\* every reference of the configuration names something the lists define
InstanceRefsKnown(cfg, i) ==
    /\ cfg.instances[i].agent \in IdsOf(cfg.agents)
    /\ cfg.instances[i].dna \in IdsOf(cfg.dnas)
InterfaceRefKnown(cfg, k, j) ==
    cfg.interfaces[k].instances[j].id \in IdsOf(cfg.instances)
Consistent(cfg) ==
    /\ \A i \in DOMAIN cfg.instances : InstanceRefsKnown(cfg, i)
    /\ \A k \in DOMAIN cfg.interfaces :
          \A j \in DOMAIN cfg.interfaces[k].instances : InterfaceRefKnown(cfg, k, j)

\* C18: check_consistency returns Ok(()) exactly when every instance names an
\* agent of the agents list and a DNA of the dnas list and every instance id
\* listed by an interface names an instance of the instances list; with a
\* reference to an unknown agent, DNA or instance it returns Err.
C18_OkIffAllReferencesKnown ==
    consistency # NotChecked =>
        /\ (consistency = Ok(Unit)) <=> Consistent(config)
        /\ ~Consistent(config) => consistency.tag = "Err"

C18_Witness ==
    /\ consistency = Ok(Unit)
    /\ Len(config.instances) = 2
    /\ config.instances[1].id # config.instances[2].id
    /\ config.instances[1].agent # config.instances[2].agent
    /\ Len(config.interfaces) = 2
    /\ Len(config.interfaces[2].instances) = 2

\* the message of the first check that fails, in the order of the lists
FirstFailure(cfg) ==
    LET badI == {i \in DOMAIN cfg.instances : ~InstanceRefsKnown(cfg, i)}
        badK == {k \in DOMAIN cfg.interfaces :
                    \E j \in DOMAIN cfg.interfaces[k].instances :
                        ~InterfaceRefKnown(cfg, k, j)} IN
    IF badI # {}
    THEN LET i == CHOOSE x \in badI : \A y \in badI : x <= y
             inst == cfg.instances[i] IN
         IF inst.agent \notin IdsOf(cfg.agents)
         THEN AgentNotFound(inst.agent, inst.id)
         ELSE DnaNotFound(inst.dna, inst.id)
    ELSE LET k == CHOOSE x \in badK : \A y \in badK : x <= y
             badJ == {j \in DOMAIN cfg.interfaces[k].instances :
                         ~InterfaceRefKnown(cfg, k, j)}
             j == CHOOSE x \in badJ : \A y \in badJ : x <= y IN
         InstanceNotFound(cfg.interfaces[k].instances[j].id)

\* C19: for an inconsistent configuration check_consistency returns the error
\* of the first failing check and no other: the instances in list order, for
\* each the agent before the DNA, then the interfaces in list order with
\* their references in list order; the message names the missing id and, for
\* an agent or a DNA, the instance that mentions it.
C19_FirstFailingCheckReported ==
    (consistency # NotChecked /\ ~Consistent(config)) =>
        /\ consistency = Err(FirstFailure(config))
        /\ consistency.err[1] \in {"Agent configuration ", "DNA configuration \"",
                                    "Instance configuration \""}
        /\ consistency.err[1] = "Instance configuration \""
              => \A i \in DOMAIN config.instances : InstanceRefsKnown(config, i)

C19_Witness ==
    /\ Len(config.instances) = 2
    /\ config.instances[1].agent \in IdsOf(config.agents)
    /\ config.instances[1].dna \notin IdsOf(config.dnas)
    /\ config.instances[2].agent \notin IdsOf(config.agents)
    /\ ~Consistent(Configuration(config.agents, config.dnas, <<>>, config.interfaces,
                                 config.bridges))
    /\ consistency = Err(DnaNotFound(config.instances[1].dna, config.instances[1].id))

\* the steps a run of the test command has made
CliRan == {cli.ran[i] : i \in DOMAIN cli.ran}

\* C20: when the tests folder does not exist under the project path, the test
\* command returns an error, and neither npm install nor the node run is
\* executed; when the run gets as far as the check of the folder, the error
\* is that of the missing directory.
C20_NoTestsFolderIsAnError ==
    (cli.pc # "not_run"
        /\ ~Path_exists(cli.fs, Path_join(ProjectPath, cli.tests_folder))) =>
        /\ "npm" \notin CliRan
        /\ "node" \notin CliRan
        /\ cli.pc \in {"dist", "package", "ensure", "returned"}
        /\ cli.pc = "returned" =>
              /\ cli.result.tag = "Err"
              /\ cli.result.err \in
                    {<<"create_dir failed">>, <<"package failed">>,
                     <<"Directory ", cli.tests_folder, " does not exist">>}
              /\ (~cli.skip_build /\ cli.ran = <<"create_dir", "package">>
                    /\ <<DIST_DIR_NAME, DEFAULT_BUNDLE_FILE_NAME>> \in cli.fs)
                    => cli.result.err
                          = <<"Directory ", cli.tests_folder, " does not exist">>

C20_Witness ==
    /\ cli.pc = "returned"
    /\ cli.tests_folder = "west"
    /\ ~cli.skip_build
    /\ cli.ran = <<"create_dir", "package">>
    /\ <<TEST_DIR_NAME>> \in cli.fs
    /\ cli.result = Err(<<"Directory ", "west", " does not exist">>)


\* the Action a workflow passes to ActionWrapper::new, from its locals
ConstructedWith(w) ==
    respond_action(wf[w].to_agent_id, wf[w].msg_id, wf[w].maybe_validation_package)
Wrapped == {w \in Workflows : wf[w].pc \in {"send", "done"}}

\* C21: action() of a wrapper is the Action the wrapper was constructed with,
\* unchanged, when it is built and after it was dispatched; two wrappers
\* built independently from value-equal Actions have equal action(), and are
\* themselves unequal.
C21_ActionIsConstructorArgument ==
    /\ \A w \in Wrapped :
          /\ Action_eq(ActionWrapper_action(wf[w].action_wrapper), ConstructedWith(w))
          /\ \A k \in DOMAIN dispatched[w] :
                Action_eq(ActionWrapper_action(dispatched[w][k]), ConstructedWith(w))
    /\ \A i \in DOMAIN created :
          created[i].action.type # "SendDirectMessage" =>
              \E k \in DOMAIN EnvActions :
                  Action_eq(ActionWrapper_action(created[i]), EnvActions[k])
    /\ \A w, v \in Wrapped :
          (w # v /\ Action_eq(ConstructedWith(w), ConstructedWith(v))) =>
              /\ Action_eq(ActionWrapper_action(wf[w].action_wrapper),
                           ActionWrapper_action(wf[v].action_wrapper))
              /\ ~ActionWrapper_eq(wf[w].action_wrapper, wf[v].action_wrapper)

C21_Witness ==
    /\ Wrapped = Workflows
    /\ wf[1].pc = "done" /\ wf[2].pc = "done"
    /\ Action_eq(ConstructedWith(1), ConstructedWith(2))
    /\ wf[1].maybe_validation_package.tag = "Some"
    /\ Action_eq(ActionWrapper_action(dispatched[1][1]),
                 ActionWrapper_action(dispatched[2][1]))
    /\ ~ActionWrapper_eq(dispatched[1][1], dispatched[2][1])
    /\ \E i \in DOMAIN created : created[i].action.type = "Commit"


\* C22 as stated: every call of debug, commit_entry and get_entry that
\* allocated its input has given the allocation back when it returns, on the
\* failure paths too: the stack of the call is back at the input's offset.
C22_InputReleasedOnAllPaths ==
    (hdk.pc = "returned" /\ hdk.allocation_of_input # None) =>
        hdk.mem_stack.top = hdk.allocation_of_input.val.offset


\* what the host handed back to the call: the text at the allocation it
\* returned, or nothing when what it returned encodes no allocation
HostAnswered == hdk.pc = "returned" /\ hdk.allocation_of_input # None
HostText ==
    IF hdk.encoded_allocation_of_result[2] = 0 THEN <<"none">>
    ELSE Memory_read(hdk.memory, hdk.encoded_allocation_of_result[1])

\* C28: the guest API maps what the host returns to values and never to a
\* fault: commit_entry returns Err(ValidationFailed(msg)) exactly when the
\* host's result carries a non-empty validation_failure msg, and Ok(address)
\* for its other results; get_entry returns Ok(None) for NotFound and
\* Ok(the optional entry) for Found; when the input cannot be stored or the
\* result cannot be loaded the call returns Err(RibosomeFailed).
C28_HostResultsMapToValues ==
    /\ hdk.pc = "panicked" => hdk.fault \in {"init unwrap", "stack unwrap"}
    /\ (hdk.pc = "returned" /\ hdk.fn \in {"commit_entry", "get_entry"}) =>
          /\ hdk.allocation_of_input = None =>
                /\ hdk.result.tag = "Err"
                /\ hdk.result.err = RibosomeFailed("Out of memory")
          /\ (HostAnswered /\ HostText[1] # ExpectedResult(hdk.fn)) =>
                /\ hdk.result.tag = "Err"
                /\ hdk.result.err.variant = "RibosomeFailed"
          /\ (HostAnswered /\ HostText[1] = "CommitEntryResult") =>
                /\ (hdk.result.tag = "Err") <=> (HostText[3] # "")
                /\ HostText[3] # "" => hdk.result.err = ValidationFailed(HostText[3])
                /\ HostText[3] = "" => hdk.result = Ok(HostText[2])
          /\ (HostAnswered /\ HostText[1] = "GetEntryResult") =>
                /\ hdk.result.tag = "Ok"
                /\ HostText[2] = "NotFound" => hdk.result.val = None
                /\ HostText[2] = "Found" =>
                      hdk.result.val = (IF HostText[3] = "null" THEN None
                                        ELSE Some(HostText[3]))

\* a commit_entry whose entry the host refused, after a get_entry that the
\* host answered with NotFound next to an entry
C28_Witness ==
    /\ hdk.calls = 2
    /\ hdk.pc = "returned" /\ hdk.fn = "commit_entry"
    /\ hdk.result = Err(ValidationFailed("entry is not valid"))
    /\ \E o \in DOMAIN hdk.memory :
          hdk.memory[o] = <<"GetEntryResult", "NotFound", "entryA">>


\* C23 as stated: under fair scheduling, with the storage read and the builder
\* returning, every workflow that was started and is not cancelled eventually
\* dispatches its SendDirectMessage response.
C23_EventuallyResponds ==
    \A w \in Workflows :
        (wf[w].pc = "get_entry") ~>
            (wf[w].pc = "cancelled" \/
                (/\ wf[w].pc = "done"
                 /\ Len(dispatched[w]) = 1
                 /\ dispatched[w][1].action.type = "SendDirectMessage"))


\* the number of envelopes whose application has been published
Published == IF disp.pc = "publishing" THEN Len(applied) - 1 ELSE Len(applied)

\* C24: the snapshot the workflows observe is at all times the sub-states
\* after the complete application of a prefix of the admission sequence, the
\* envelopes published so far: while an envelope is applied and not yet
\* published the snapshot is still the state before it, no envelope of the
\* prefix is skipped, and the snapshot stays as it is while a workflow holds
\* its read guard.
C24_SnapshotIsCompletePrefix ==
    /\ Published \in 0..Len(admitted)
    /\ snapshot = FoldReduce(InitialState, SubSeq(admitted, 1, Published))
    /\ disp.pc = "publishing" =>
          state = reduce(snapshot, admitted[Published + 1])
    /\ readers # {} => Published = Len(applied) \/ disp.pc = "publishing"

C24_Witness ==
    /\ disp.pc = "publishing"
    /\ Published = 1
    /\ Len(admitted) = 2
    /\ snapshot # InitialState
    /\ snapshot # state
    /\ 2 \in readers


\* the place of a completed workflow's envelope in the admission sequence
AdmittedAt(w) ==
    CHOOSE i \in DOMAIN admitted : ActionWrapper_eq(admitted[i], dispatched[w][1])

\* C25: no completion order is imposed between the workflows: whenever both
\* have their response ready, either one can dispatch next, and the one that
\* is left can dispatch after the other did, so that both admission orders
\* follow; the order in which they were started and in which their wrappers
\* were built decides nothing.
C25_NoCompletionOrderImposed ==
    /\ \A w, v \in Workflows :
          (w # v /\ wf[w].pc = "send" /\ wf[v].pc \in {"send", "done"}) =>
              ENABLED WorkflowSend(w)
    /\ Completed = Workflows => AdmittedAt(1) # AdmittedAt(2)

\* the workflow started second, for Q, was admitted before the one started
\* first, for P, whose wrapper was built first
C25_Witness ==
    /\ Completed = Workflows
    /\ wf[1].to_agent_id = "P" /\ wf[2].to_agent_id = "Q"
    /\ ActionWrapper_id(dispatched[1][1]) < ActionWrapper_id(dispatched[2][1])
    /\ AdmittedAt(2) < AdmittedAt(1)

\* the same two workflows admitted in the order in which they were started
C25_StartOrderReached ==
    /\ Completed = Workflows
    /\ wf[1].to_agent_id = "P" /\ wf[2].to_agent_id = "Q"
    /\ ActionWrapper_id(dispatched[1][1]) < ActionWrapper_id(dispatched[2][1])
    /\ AdmittedAt(1) < AdmittedAt(2)


\* C26: the builder is invoked only after the lookup succeeded, and with the
\* entry the lookup returned, which is the one stored under the requested
\* address; after a lookup that failed the builder is never invoked and the
\* workflow is on its way to dispatch the response without a package.
C26_BuilderOnlyAfterLookup ==
    \A w \in Workflows :
        /\ (wf[w].pc = "build" \/ wf[w].build # "none") =>
              /\ wf[w].lookup = "found"
              /\ wf[w].entry_result.tag = "Ok"
              /\ Entry_address(wf[w].entry_result.val) = wf[w].requested_entry_address
        /\ wf[w].build = "ok" =>
              wf[w].build_result = Ok(ValidationPackage_for(wf[w].entry_result.val))
        /\ wf[w].lookup \in {"fetch_error", "not_found", "not_an_entry"} =>
              /\ wf[w].entry_result.tag = "Err"
              /\ wf[w].build = "none"
              /\ wf[w].build_result = Err("none")
              /\ wf[w].pc \in {"dispatch", "send", "done"}
              /\ wf[w].maybe_validation_package = None

C26_Witness ==
    /\ wf[1].pc = "done" /\ wf[1].lookup = "found" /\ wf[1].build = "ok"
    /\ wf[1].entry_result = Ok("entryB")
    /\ wf[1].build_result = Ok(ValidationPackage_for("entryB"))
    /\ wf[2].pc = "dispatch" /\ wf[2].lookup = "not_an_entry"
    /\ wf[2].build = "none"


\* the paths test() works on, and the step it made last
DistPath == Path_join(ProjectPath, DIST_DIR_NAME)
BundlePath == Path_join(DistPath, DEFAULT_BUNDLE_FILE_NAME)
TestsPath == Path_join(ProjectPath, cli.tests_folder)
NodeModulesPath == Path_join(TestsPath, "node_modules")
CliStepped(step) ==
    /\ cli'.ran # cli.ran
    /\ cli'.ran = Append(cli.ran, step)

\* C27: the test command makes its steps in one order and stops at the first
\* that fails: the dist folder is created only when it is missing, the bundle
\* is packaged unless skip_build is set, the tests folder is checked, npm
\* install runs only when the tests folder has no node_modules, node runs
\* last; a failed step is the last step, and its error is what is returned.
\* After Ok(()) with skip_build false the bundle is in dist and node_modules
\* is in the tests folder.
C27_StepsInOrderUntilFirstFailure ==
    /\ [](cli.pc \notin {"not_run", "returned"} => cli.result = None)
    /\ [](cli.pc \in {"package", "ensure", "npm", "node"} =>
            Path_exists(cli.fs, DistPath))
    /\ [](cli.pc \in {"ensure", "npm", "node"} =>
            (cli.skip_build <=> "package" \notin CliRan))
    /\ [](cli.pc \in {"npm", "node"} => Path_exists(cli.fs, TestsPath))
    /\ [](cli.pc = "node" => Path_exists(cli.fs, NodeModulesPath))
    /\ [](cli.pc = "returned" =>
            /\ cli.result # None
            /\ cli.result = Ok(Unit) =>
                  /\ cli.ran # <<>> /\ cli.ran[Len(cli.ran)] = "node"
                  /\ Path_exists(cli.fs, NodeModulesPath)
                  /\ ~cli.skip_build => Path_exists(cli.fs, BundlePath))
    /\ [][CliStepped("create_dir") =>
            cli.ran = <<>> /\ ~Path_exists(cli.fs, DistPath)]_vars
    /\ [][CliStepped("package") =>
            /\ ~cli.skip_build
            /\ CliRan \subseteq {"create_dir"}
            /\ Path_exists(cli.fs, DistPath)]_vars
    /\ [][CliStepped("npm") =>
            /\ CliRan \subseteq {"create_dir", "package"}
            /\ Path_exists(cli.fs, TestsPath)
            /\ ~Path_exists(cli.fs, NodeModulesPath)]_vars
    /\ [][CliStepped("node") =>
            /\ CliRan \subseteq {"create_dir", "package", "npm"}
            /\ Path_exists(cli.fs, NodeModulesPath)
            /\ cli'.pc = "returned"]_vars
    /\ [][(cli.pc # "not_run" /\ cli'.result # cli.result) =>
            /\ cli'.pc = "returned"
            /\ cli'.result.tag = "Err" =>
                  \/ cli'.ran # cli.ran
                  \/ cli'.result = Err(<<"Directory ", cli.tests_folder,
                                         " does not exist">>)]_vars
    /\ [][cli.pc = "returned" => cli' = cli]_vars

\* all five steps were made on a project without dist and without
\* node_modules, and the run succeeded
C27_Witness ==
    /\ cli.pc = "returned"
    /\ cli.result = Ok(Unit)
    /\ ~cli.skip_build
    /\ cli.ran = <<"create_dir", "package", "npm", "node">>
    /\ Path_exists(cli.fs, BundlePath)
    /\ Path_exists(cli.fs, NodeModulesPath)


\* a history keyed by ActionWrapper: every applied envelope is inserted under
\* itself, with its place in the order of application
RECURSIVE History(_)
History(seq) ==
    IF seq = <<>> THEN <<>>
    ELSE HashMap_insert(History(SubSeq(seq, 1, Len(seq) - 1)), seq[Len(seq)], Len(seq))

\* the wrappers made by new() that were applied, and the occurrences of one
AppliedOriginals ==
    {k \in DOMAIN created :
        \E i \in DOMAIN applied : ActionWrapper_eq(applied[i], created[k])}
Occurrences(aw) == {i \in DOMAIN applied : ActionWrapper_eq(applied[i], aw)}

\* C29: a clone keeps the id of the wrapper it was cloned from: every
\* envelope dispatched, clone or original, is equal to a wrapper made by
\* new(), hashes the same and carries the same action; the occurrences of an
\* original and of its clones share that one identity, and a history keyed by
\* ActionWrapper holds one entry for them all, under the value inserted last.
C29_CloneKeepsIdentity ==
    /\ \A i \in DOMAIN admitted :
          \E k \in DOMAIN created :
              /\ ActionWrapper_id(admitted[i]) = ActionWrapper_id(created[k])
              /\ ActionWrapper_eq(admitted[i], created[k])
              /\ ActionWrapper_hash(admitted[i]) = ActionWrapper_hash(created[k])
              /\ Action_eq(ActionWrapper_action(admitted[i]),
                           ActionWrapper_action(created[k]))
    /\ Len(History(applied)) = Cardinality(AppliedOriginals)
    /\ \A e \in DOMAIN History(applied) :
          LET entry == History(applied)[e] IN
          /\ entry.val \in Occurrences(entry.key)
          /\ \A i \in Occurrences(entry.key) : i <= entry.val

\* an original, its clone and a second original were applied: three
\* occurrences, two entries in the history
C29_Witness ==
    /\ Len(applied) = 3
    /\ Len(created) = 2
    /\ Occurrences(created[1]) = {1, 3}
    /\ Len(History(applied)) = 2
    /\ History(applied)[1].val = 3


\* the bridges whose caller or callee is no instance of the configuration
DanglingBridges(cfg) ==
    {b \in DOMAIN cfg.bridges :
        \/ cfg.bridges[b].caller_id \notin IdsOf(cfg.instances)
        \/ cfg.bridges[b].callee_id \notin IdsOf(cfg.instances)}

\* C30: check_consistency does not look at the bridges: it returns what it
\* returns for the same configuration without bridges, and a configuration
\* whose instance and interface references all resolve is reported Ok(())
\* also when a bridge names a caller_id or a callee_id that is no instance.
C30_BridgesAreNotChecked ==
    consistency # NotChecked =>
        /\ consistency = check_consistency([config EXCEPT !.bridges = <<>>])
        /\ Consistent(config) => consistency = Ok(Unit)

C30_Witness ==
    /\ consistency = Ok(Unit)
    /\ Len(config.instances) = 2
    /\ Len(config.interfaces) >= 1 /\ Len(config.interfaces[1].instances) = 2
    /\ Cardinality(DanglingBridges(config)) = 2
    /\ config.bridges[1].callee_id \notin IdsOf(config.instances)
    /\ config.bridges[2].caller_id \notin IdsOf(config.instances)


\* the error of the ensure! on the tests folder
MissingTestsFolder ==
    Err(<<"Directory ", cli.tests_folder, " does not exist">>)

\* C31: the error for a missing tests folder comes after the effects of the
\* steps before the check: when the tests folder is checked, and when the
\* call has returned that error, the dist folder exists, created by the call
\* if it was missing, and unless skip_build is set the bundle was packaged
\* and exists in it; with skip_build set nothing was packaged.
C31_ErrorAfterDistAndBundle ==
    (cli.pc = "ensure" \/ (cli.pc = "returned" /\ cli.result = MissingTestsFolder)) =>
        /\ Path_exists(cli.fs, DistPath)
        /\ ~cli.skip_build =>
              /\ Path_exists(cli.fs, BundlePath)
              /\ cli.ran \in {<<"package">>, <<"create_dir", "package">>}
        /\ cli.skip_build => cli.ran \in {<<>>, <<"create_dir">>}

\* a project with no dist folder and no test folder: the call returned the
\* error of the missing folder and left dist and the bundle behind
C31_Witness ==
    /\ cli.pc = "returned"
    /\ cli.result = MissingTestsFolder
    /\ cli.tests_folder = TEST_DIR_NAME
    /\ ~cli.skip_build
    /\ cli.fs = {DistPath, BundlePath}
    /\ "create_dir" \in CliRan


\* C32: after init_memory_stack no call of debug, commit_entry, get_entry or
\* serialize_wasm_output changes G_MEM_STACK: a step that changes it is a
\* step of init_memory_stack, between two calls; and every call starts from
\* a copy of the stack G_MEM_STACK holds, whatever the call before it
\* allocated or gave back on its own copy.
C32_CallsLeaveGlobalStack ==
    [][/\ hdk.g_mem_stack' # hdk.g_mem_stack =>
            /\ HdkInitMemoryStack
            /\ hdk.pc \in {"idle", "returned"}
            /\ hdk.calls' = hdk.calls
       /\ (hdk.calls' = hdk.calls + 1 /\ hdk.pc' # "panicked") =>
            /\ hdk.g_mem_stack # None
            /\ hdk.g_mem_stack' = hdk.g_mem_stack
            /\ hdk.mem_stack' =
                  IF hdk.fn' = "serialize_wasm_output"
                  THEN store_json(hdk.g_mem_stack.val, hdk.memory, hdk.text').stack
                  ELSE hdk.g_mem_stack.val
      ]_vars

\* a second call, of serialize_wasm_output, after a call whose input was
\* stored at offset 8 and answered by the host above it: the output is stored
\* at offset 8 again, and G_MEM_STACK is still the stack that was set
C32_Witness ==
    /\ hdk.pc = "returned"
    /\ hdk.calls = 2
    /\ hdk.fn = "serialize_wasm_output"
    /\ hdk.g_mem_stack = Some(SinglePageStack(8))
    /\ 10 \in DOMAIN hdk.memory
    /\ hdk.result = Ok(Allocation_encode(SinglePageAllocation(8, 2)))
    /\ hdk.mem_stack = SinglePageStack(10)

=============================================================================
